---- MODULE Spec2Model ----
(***************************************************************************)
(* Orchestration engine of corp-search: the execution context              *)
(* (src/model/context/context.py), the graph of nodes                      *)
(* (src/graph/react_graph.py) and the nodes themselves                     *)
(* (src/graph/nodes/*.py).                                                 *)
(*                                                                         *)
(* Data abstraction.  Payloads are reduced to the values the control flow  *)
(* inspects: raw_output is NULL or "data"; validation_result is NULL,      *)
(* "valid" or "invalid" (validation_result.get("is_valid", False));        *)
(* error is NULL or a message tag; a reasoner decision is a record of the  *)
(* keys the engine reads; depends_on lists are sets (the code only tests   *)
(* every element); history is the set of the types of the events appended  *)
(* (timestamps and order are dropped); an agent_calls entry keeps agent and *)
(* status; confidences are integers in hundredths.                          *)
(*                                                                         *)
(* The scheduler and planner nodes are written against the legacy context  *)
(* (execution.current_subquestion_id, StepState.status); the routers, the  *)
(* reasoner and the executor read execution.current_step_id through the    *)
(* new context.  The model keeps one "current step" variable for both      *)
(* names and keeps the legacy status as a separate field of each step.     *)
(***************************************************************************)
EXTENDS Integers, Sequences, FiniteSets, TLC

NULL == "null"

\* retry limit hard-wired in reasoner_node ("retry_count < 2")
MAX_RETRIES == 2

\* saturation bound of the audit counter reasoner_runs
LoopBudget == 12

StepIds == {"q1", "q2"}

Stages == {"data_fetch", "processing", "validation"}

\* next_stage values for which reasoner_router routes to the executor
EXECUTOR_STAGES == {"validate_entities", "fetch_data", "process_data", "validate_result"}

\* legacy statuses at which next_subquestion_node skips a sub-question
TERMINAL_STATUSES == {"finalized", "failed", "done", "executed"}

VARIABLES
    node,            \* graph node about to run
    question,        \* GraphContext.question
    plan,            \* sequence of sub-questions [id, depends_on]
    steps,           \* execution.steps: id -> StepExecutionState
    current_step_id, \* execution.current_step_id / current_subquestion_id
    finished,        \* legacy "finished" flag of the returned state
    final_answer,    \* final answer stored by the synthesizer
    reasoner_runs,   \* audit counter: reasoner_node runs per step (saturating)
    history,         \* execution.history, reduced to the set of event types
    call_args,       \* arguments of the operation driven on its own
    call_result,     \* <<>> before that operation has run, <<value>> after
    llm_cache,       \* _LLM_CACHE: profile -> LLM handle
    engine_cache,    \* _ENGINE_CACHE: db_uri -> engine
    threads,         \* callers of the shared services: position and locals
    created,         \* instances constructed so far
    now,             \* wall clock read by time.time() / datetime.utcnow()
    cancel_requested \* cancellation signal of the invocation

vars == <<node, question, plan, steps, current_step_id, finished,
          final_answer, reasoner_runs, history, call_args, call_result,
          llm_cache, engine_cache, threads, created, now, cancel_requested>>

\* state outside the execution context: service caches, their callers, the
\* clock and the cancellation signal
outervars == <<llm_cache, engine_cache, threads, created, now,
               cancel_requested>>

\* LLM profiles, connection strings and calling threads
Profiles == {"default", "fast"}

DbUris == {"db_a", "db_b"}

Threads == {"t1", "t2"}

\* an instance is <<key, serial number>>; <<>> stands for None
NoInstance == <<>>

\* a caller that is not inside a call
ThreadIdle == [pc |-> "idle", key |-> NULL, local |-> NoInstance]

\* nothing cached, nobody calling, clock at its origin, no cancellation
OuterIdle ==
    /\ llm_cache = [p \in Profiles |-> NoInstance]
    /\ engine_cache = [u \in DbUris |-> NoInstance]
    /\ threads = [t \in Threads |-> ThreadIdle]
    /\ created = {}
    /\ now = 0
    /\ cancel_requested = FALSE

\* the variables of an operation driven on its own; the graph leaves them alone
callvars == <<call_args, call_result>>

ctxvars == <<plan, steps, current_step_id>>

----------------------------------------------------------------------------
(* Data model: src/model/context/models.py *)

AllFalse == [s \in Stages |-> FALSE]

NoDecision ==
    [present |-> FALSE, needs_postprocessing |-> FALSE,
     needs_validation |-> FALSE, selected_hypothesis |-> -1,
     next_stage |-> NULL]

\* decisions a reasoner agent can hand back with status ok
Decisions ==
    [present : {TRUE}, needs_postprocessing : BOOLEAN,
     needs_validation : BOOLEAN, selected_hypothesis : {-1, 0},
     next_stage : {NULL, "fetch_data"}]

\* StepExecutionState with its field defaults; exists = FALSE stands for an
\* id that has no entry in execution.steps
StepExecutionState(ex) ==
    [exists |-> ex, status |-> "pending",
     expected_stages |-> AllFalse, completed_stages |-> AllFalse,
     completed |-> FALSE, error |-> NULL, retry_count |-> 0,
     decision |-> NoDecision, hypothesis |-> NULL,
     raw_output |-> NULL, validation_result |-> NULL,
     final_result |-> NULL,
     agent_calls |-> <<>>]

SubQuestion(i, deps) == [id |-> i, depends_on |-> deps]

\* plans a planner agent may return: any order of distinct ids, any
\* depends_on over the other ids, known to the plan or not (the planner
\* node stores the plan unchecked)
RECURSIVE SeqsOver(_, _)
SeqsOver(S, n) ==
    IF n = 0 THEN {<<>>}
    ELSE {Append(q, x) : q \in SeqsOver(S, n - 1), x \in S}

IdOrders ==
    {q \in UNION {SeqsOver(StepIds, n) : n \in 0..Cardinality(StepIds)} :
        \A i, j \in 1..Len(q) : i # j => q[i] # q[j]}

Plans ==
    UNION {{[i \in 1..Len(o) |-> SubQuestion(o[i], d[i])] :
              d \in {f \in [1..Len(o) -> SUBSET StepIds] :
                        \A i \in 1..Len(o) : o[i] \notin f[i]}} :
           o \in IdOrders}

PlanIds(p) == {p[i].id : i \in 1..Len(p)}

----------------------------------------------------------------------------
(* Execution context API: src/model/context/context.py *)

is_plan_set(p) == Len(p) > 0

\* ensure_execution_step: create the entry when it is missing
ensure_execution_step(st, id) ==
    IF st[id].exists THEN st ELSE [st EXCEPT ![id] = StepExecutionState(TRUE)]

is_stage_completed(st, id, stage) ==
    IF ~st[id].exists THEN FALSE ELSE st[id].completed_stages[stage]

is_step_fully_completed(st, id) ==
    IF ~st[id].exists THEN FALSE
    ELSE IF ~(\E s \in Stages : st[id].expected_stages[s]) THEN FALSE
    ELSE \A s \in Stages :
            st[id].expected_stages[s] => st[id].completed_stages[s]

is_step_completed(st, id) == is_step_fully_completed(st, id)

mark_step_completed(st, id) ==
    IF st[id].exists THEN [st EXCEPT ![id].completed = TRUE] ELSE st

set_expected_stages(st, id, stages) ==
    [ensure_execution_step(st, id) EXCEPT ![id].expected_stages = stages]

\* mark_stage_completed that also marks the stages before the given one
mark_stage_completed_upto(st, id, stage) ==
    [ensure_execution_step(st, id) EXCEPT
        ![id].completed_stages =
            [s \in Stages |->
                \/ @[s]
                \/ s = stage
                \/ s = "data_fetch"
                \/ (s = "processing" /\ stage = "validation")]]

mark_stage_completed(st, id, stage) ==
    [ensure_execution_step(st, id) EXCEPT ![id].completed_stages[stage] = TRUE]

\* get_current_stage that offers processing whether expected or not
get_current_stage_unexpected(st, id) ==
    IF is_step_fully_completed(st, id) THEN "completed"
    ELSE IF ~st[id].exists THEN "data_fetch"
    ELSE IF ~is_stage_completed(st, id, "data_fetch") THEN "data_fetch"
    ELSE IF ~is_stage_completed(st, id, "processing") THEN "processing"
    ELSE IF st[id].expected_stages["validation"]
            /\ ~is_stage_completed(st, id, "validation") THEN "validation"
    ELSE "completed"

\* get_current_stage that looks at validation before data_fetch
get_current_stage_valfirst(st, id) ==
    IF is_step_fully_completed(st, id) THEN "completed"
    ELSE IF ~st[id].exists THEN "data_fetch"
    ELSE IF st[id].expected_stages["validation"]
            /\ ~is_stage_completed(st, id, "validation") THEN "validation"
    ELSE IF ~is_stage_completed(st, id, "data_fetch") THEN "data_fetch"
    ELSE IF st[id].expected_stages["processing"]
            /\ ~is_stage_completed(st, id, "processing") THEN "processing"
    ELSE "completed"

\* get_current_stage that never returns the processing stage
get_current_stage_noprocessing(st, id) ==
    IF is_step_fully_completed(st, id) THEN "completed"
    ELSE IF ~st[id].exists THEN "data_fetch"
    ELSE IF ~is_stage_completed(st, id, "data_fetch") THEN "data_fetch"
    ELSE IF st[id].expected_stages["validation"]
            /\ ~is_stage_completed(st, id, "validation") THEN "validation"
    ELSE "completed"

get_current_stage(st, id) ==
    IF is_step_fully_completed(st, id) THEN "completed"
    ELSE IF ~st[id].exists THEN "data_fetch"
    ELSE IF ~is_stage_completed(st, id, "data_fetch") THEN "data_fetch"
    ELSE IF st[id].expected_stages["processing"]
            /\ ~is_stage_completed(st, id, "processing") THEN "processing"
    ELSE IF st[id].expected_stages["validation"]
            /\ ~is_stage_completed(st, id, "validation") THEN "validation"
    ELSE "completed"

\* select_from without the dependency test
RECURSIVE select_from_nodeps(_, _, _)
select_from_nodeps(p, st, i) ==
    IF i > Len(p) THEN NULL
    ELSE IF is_step_fully_completed(st, p[i].id)
         THEN select_from_nodeps(p, st, i + 1)
         ELSE p[i].id

\* select_from that keeps scanning and returns the last ready sub-question
RECURSIVE select_from_last(_, _, _)
select_from_last(p, st, i) ==
    IF i > Len(p) THEN NULL
    ELSE LET rest == select_from_last(p, st, i + 1) IN
         IF rest # NULL THEN rest
         ELSE IF ~is_step_fully_completed(st, p[i].id)
                 /\ \A d \in p[i].depends_on : is_step_fully_completed(st, d)
              THEN p[i].id
              ELSE NULL

\* select_from that gives up at the first sub-question whose dependencies
\* are not completed
RECURSIVE select_from_stops(_, _, _)
select_from_stops(p, st, i) ==
    IF i > Len(p) THEN NULL
    ELSE IF is_step_fully_completed(st, p[i].id)
    THEN select_from_stops(p, st, i + 1)
    ELSE IF \A d \in p[i].depends_on : is_step_fully_completed(st, d)
         THEN p[i].id
         ELSE NULL

\* the loop of select_next_step from plan index i on
RECURSIVE select_from(_, _, _)
select_from(p, st, i) ==
    IF i > Len(p) THEN NULL
    ELSE IF is_step_fully_completed(st, p[i].id) THEN select_from(p, st, i + 1)
    ELSE IF \A d \in p[i].depends_on : is_step_fully_completed(st, d)
         THEN p[i].id
         ELSE select_from(p, st, i + 1)

select_next_step(p, st) ==
    IF ~is_plan_set(p) THEN NULL ELSE select_from(p, st, 1)

all_steps_completed(p, st) ==
    IF ~is_plan_set(p) THEN TRUE
    ELSE \A i \in 1..Len(p) :
            /\ st[p[i].id].exists
            /\ \E s \in Stages : st[p[i].id].expected_stages[s]
            /\ is_step_fully_completed(st, p[i].id)

record_reasoner_decision(st, id, d) ==
    LET s1 == [ensure_execution_step(st, id) EXCEPT ![id].decision = d]
        s2 == set_expected_stages(s1, id,
                 [s \in Stages |->
                    IF s = "data_fetch" THEN TRUE
                    ELSE IF s = "processing" THEN d.needs_postprocessing
                    ELSE d.needs_validation])
    IN  IF d.selected_hypothesis = 0
        THEN [s2 EXCEPT ![id].hypothesis = "h0"]
        ELSE s2

\* the tool call of the current stage, reduced to its agent (NULL = None)
get_current_tool_call(st, id) ==
    LET stage == get_current_stage(st, id) IN
    IF stage = "completed" THEN NULL
    ELSE IF ~st[id].exists THEN NULL
    ELSE IF stage = "data_fetch"
         THEN IF st[id].hypothesis # NULL THEN "ToolAgent" ELSE NULL
    ELSE IF stage = "processing" THEN "DataAnalysisAgent"
    ELSE "ResultValidatorAgent"

\* the params of that tool call, as a map from parameter name to value
\* (the text of a sub-question is stood for by its id; <<>> when there is
\* no call)
get_current_tool_call_params(st, id) ==
    LET stage == get_current_stage(st, id) IN
    IF get_current_tool_call(st, id) = NULL THEN <<>>
    ELSE IF stage = "data_fetch"
    THEN [k \in {"hypothesis_params"} |-> st[id].hypothesis]
    ELSE [k \in {"subquestion_text", "raw_output"} |->
             IF k = "subquestion_text" THEN id ELSE st[id].raw_output]

record_step_result(st, id, result) ==
    [ensure_execution_step(st, id) EXCEPT ![id].raw_output = result]

record_validation_result(st, id, result) ==
    [ensure_execution_step(st, id) EXCEPT ![id].validation_result = result]

\* the serialized record appended for a result; its timestamp is the time
\* the result was constructed
call_record(r) ==
    [agent |-> IF r.agent = NULL THEN "unknown" ELSE r.agent,
     status |-> r.status,
     timestamp |-> r.ts]

\* the result argument when no result is passed (None)
NoResult == [status |-> NULL]

\* record_agent_call that skips a non-null result equal to the last entry
record_agent_call_dedup(st, id, r) ==
    LET s1 == ensure_execution_step(st, id)
        n  == Len(s1[id].agent_calls)
    IN  IF r = NoResult THEN st
        ELSE IF n > 0 /\ s1[id].agent_calls[n] = call_record(r) THEN s1
        ELSE [s1 EXCEPT ![id].agent_calls = Append(@, call_record(r))]

\* nothing is recorded for a missing result
record_agent_call(st, id, r) ==
    IF r = NoResult THEN st
    ELSE [ensure_execution_step(st, id) EXCEPT
            ![id].agent_calls = Append(@, call_record(r))]

----------------------------------------------------------------------------
(* Context methods the executor node calls: get_tool_call_for_executor and *)
(* record_tool_execution_result.                                           *)

\* a tool result: status, the lifecycle stage it is tagged with, its
\* output, the agent that produced it and the time of its construction
ToolResult(status, stage, output, agent) ==
    [status |-> status, stage |-> stage, output |-> output, agent |-> agent,
     ts |-> now]

get_tool_call_for_executor(st, id) == get_current_tool_call(st, id)

\* on success write raw_output / validation_result according to the
\* result's stage, mark that stage completed and append the result to
\* agent_calls; on error (the executor passes no result then) mark the step
\* failed with the error message
record_tool_execution_result(st, id, result, err) ==
    IF err # NULL
    THEN record_agent_call(
            [ensure_execution_step(st, id) EXCEPT ![id].error = err],
            id, result)
    ELSE IF result.stage = "validation"
    THEN record_agent_call(
            mark_stage_completed(
                record_validation_result(st, id, result.output),
                id, "validation"),
            id, result)
    ELSE record_agent_call(
            mark_stage_completed(
                record_step_result(st, id, result.output), id, result.stage),
            id, result)

\* a step counts as failed when an error message is recorded on it
step_failed(st, id) == st[id].exists /\ st[id].error # NULL

----------------------------------------------------------------------------
(* Graph routers: src/graph/react_graph.py *)

next_subq_router(cur) == IF cur # NULL THEN "reasoner" ELSE "synthesizer"

reasoner_router(st, cur) ==
    IF cur = NULL THEN "next_subquestion"
    ELSE IF is_step_completed(st, cur) THEN "next_subquestion"
    ELSE IF ~st[cur].exists \/ ~st[cur].decision.present THEN "next_subquestion"
    ELSE IF st[cur].decision.next_stage \in EXECUTOR_STAGES THEN "executor"
    ELSE "next_subquestion"

----------------------------------------------------------------------------
(* Nodes: src/graph/nodes/*.py *)

Min(a, b) == IF a < b THEN a ELSE b

\* legacy ensure_step of the planner: one pending step per sub-question
RECURSIVE ensure_steps(_, _, _)
ensure_steps(st, p, i) ==
    IF i > Len(p) THEN st
    ELSE ensure_steps(ensure_execution_step(st, p[i].id), p, i + 1)

\* outcomes of a call to a collaborating agent
AgentOutcomes == {"ok", "error", "raises", "instantiate_failed"}

\* history event the planner appends when the agent call fails
PlannerFailureEvent(outcome) ==
    IF outcome = "instantiate_failed" THEN "planner_instantiate_failed"
    ELSE IF outcome = "raises" THEN "planner_agent_execute_failed"
    ELSE "planner_agent_failed"

PlannerFallback ==
    /\ steps' = ensure_execution_step(steps, "q1")
    /\ current_step_id' = "q1"
    /\ plan' = <<SubQuestion("q1", {})>>

PlannerNode ==
    /\ node = "planner"
    /\ node' = "next_subquestion"
    /\ IF question = ""
       THEN /\ history' = history \cup {"planner_no_question"}
            /\ UNCHANGED <<plan, steps, current_step_id>>
       ELSE \E outcome \in AgentOutcomes :
              IF outcome = "ok"
              THEN \E p \in Plans :
                     /\ plan' = p
                     /\ steps' = ensure_steps(steps, p, 1)
                     /\ current_step_id' =
                          IF Len(p) > 0 THEN p[1].id ELSE current_step_id
                     /\ history' = history \cup {"planner_agent_generated_plan"}
              ELSE /\ PlannerFallback
                   /\ history' = history \cup {PlannerFailureEvent(outcome),
                                               "planner_fallback_created_step"}
    /\ UNCHANGED <<question, finished, final_answer, reasoner_runs>>
    /\ UNCHANGED <<callvars, outervars>>

\* status the scheduler sees for a sub-question (None when there is no step)
step_status(st, id) == IF st[id].exists THEN st[id].status ELSE NULL

\* first_unfinished that scans the plan from its end
RECURSIVE first_unfinished_reversed(_, _, _)
first_unfinished_reversed(p, st, i) ==
    IF i > Len(p) THEN NULL
    ELSE LET rest == first_unfinished_reversed(p, st, i + 1) IN
         IF rest # NULL THEN rest
         ELSE IF step_status(st, p[i].id) \notin TERMINAL_STATUSES THEN p[i].id
         ELSE NULL

\* first sub-question in plan order whose status is not terminal
RECURSIVE first_unfinished(_, _, _)
first_unfinished(p, st, i) ==
    IF i > Len(p) THEN NULL
    ELSE IF step_status(st, p[i].id) \notin TERMINAL_STATUSES THEN p[i].id
    ELSE first_unfinished(p, st, i + 1)

NextSubquestionSelect(p, st) == first_unfinished(p, st, 1)

NextSubquestionNode ==
    /\ node = "next_subquestion"
    /\ IF ~is_plan_set(plan)
       THEN /\ finished' = TRUE
            /\ history' = history \cup
                   {IF question = "" THEN "next_subquestion_no_plan"
                    ELSE "next_subquestion_empty_subquestions"}
            /\ UNCHANGED current_step_id
       ELSE LET sid == NextSubquestionSelect(plan, steps) IN
            /\ current_step_id' = sid
            /\ finished' = (sid = NULL)
            /\ history' = history \cup
                   {IF sid # NULL THEN "next_subquestion_selected"
                    ELSE "next_subquestion_all_done"}
    /\ node' = next_subq_router(current_step_id')
    /\ UNCHANGED <<question, plan, steps, final_answer, reasoner_runs>>
    /\ UNCHANGED <<callvars, outervars>>

\* RetryReset that keeps the output of the failed attempt
RetryReset_keepsoutput(st, id) ==
    [st EXCEPT ![id].retry_count = @ + 1,
               ![id].completed_stages = AllFalse,
               ![id].validation_result = NULL,
               ![id].error = NULL]

\* retry branch of reasoner_node: reset the stages, keep expected_stages
RetryReset(st, id) ==
    [st EXCEPT ![id].retry_count = @ + 1,
               ![id].completed_stages = AllFalse,
               ![id].raw_output = NULL,
               ![id].validation_result = NULL,
               ![id].error = NULL]

\* RetryAllowed with an off-by-one comparison
RetryAllowed_le(st, id) == st[id].retry_count <= MAX_RETRIES

RetryAllowed(st, id) == st[id].retry_count < MAX_RETRIES

\* reasoner_step that takes a completed data_fetch stage for a completed step
reasoner_step_fetchonly(st, id, outcome, d) ==
    IF is_stage_completed(st, id, "validation")
       /\ st[id].validation_result # "valid"
    THEN IF RetryAllowed(st, id)
         THEN RetryReset(st, id)
         ELSE mark_step_completed(st, id)
    ELSE IF is_stage_completed(st, id, "data_fetch")
    THEN mark_step_completed(st, id)
    ELSE IF st[id].exists /\ st[id].decision.present /\ st[id].error = NULL
    THEN st
    ELSE IF outcome = "ok"
    THEN record_reasoner_decision(st, id, d)
    ELSE st

\* reasoner_node on step id with the reasoner agent answering outcome / d
reasoner_step(st, id, outcome, d) ==
    IF is_stage_completed(st, id, "validation")
       /\ st[id].validation_result # "valid"
    THEN IF RetryAllowed(st, id)
         THEN RetryReset(st, id)
         ELSE mark_step_completed(st, id)
    ELSE IF is_step_fully_completed(st, id)
    THEN mark_step_completed(st, id)
    ELSE IF st[id].exists /\ st[id].decision.present /\ st[id].error = NULL
    THEN st
    ELSE IF outcome = "ok"
    THEN record_reasoner_decision(st, id, d)
    ELSE st

\* reasoner_node calls mark_step_completed, which appends step_completed
\* when the step exists
reasoner_marks_completed(st, id) ==
    /\ st[id].exists
    /\ \/ /\ is_stage_completed(st, id, "validation")
          /\ st[id].validation_result # "valid"
          /\ ~RetryAllowed(st, id)
       \/ /\ ~(is_stage_completed(st, id, "validation")
                /\ st[id].validation_result # "valid")
          /\ is_step_fully_completed(st, id)

ReasonerNode ==
    /\ node = "reasoner"
    /\ IF current_step_id = NULL
       THEN UNCHANGED <<steps, reasoner_runs, history>>
       ELSE /\ history' =
                 IF reasoner_marks_completed(steps, current_step_id)
                 THEN history \cup {"step_completed"} ELSE history
            /\ \E outcome \in AgentOutcomes :
                 \E d \in IF outcome = "ok" THEN Decisions ELSE {NoDecision} :
                    steps' = reasoner_step(steps, current_step_id, outcome, d)
            /\ reasoner_runs' =
                 [reasoner_runs EXCEPT ![current_step_id] =
                     Min(@ + 1, LoopBudget + 1)]
    /\ node' = reasoner_router(steps', current_step_id)
    /\ UNCHANGED <<question, plan, current_step_id, finished, final_answer>>
    /\ UNCHANGED <<callvars, outervars>>

\* outputs a successful tool call can carry at a stage
StageOutputs(stage) ==
    IF stage = "validation" THEN {"valid", "invalid"} ELSE {"data"}

\* executor_step that drops the failure of the tool call
executor_step_swallow(st, id, outcome, output) ==
    IF ~st[id].exists THEN st
    ELSE IF get_tool_call_for_executor(st, id) = NULL THEN st
    ELSE IF outcome = "ok"
    THEN record_tool_execution_result(st, id,
            ToolResult("ok", get_current_stage(st, id), output,
                       get_tool_call_for_executor(st, id)), NULL)
    ELSE st

\* executor_node on step id with the tool answering outcome / output
executor_step(st, id, outcome, output) ==
    IF ~st[id].exists THEN st
    ELSE IF get_tool_call_for_executor(st, id) = NULL THEN st
    ELSE IF outcome = "ok"
    THEN record_tool_execution_result(st, id,
            ToolResult("ok", get_current_stage(st, id), output,
                       get_tool_call_for_executor(st, id)), NULL)
    ELSE record_tool_execution_result(st, id, NoResult, "tool_error")

\* history after executor_node: nothing is appended when the step or its
\* tool call is missing
executor_history(st, id, outcome) ==
    IF ~st[id].exists \/ get_tool_call_for_executor(st, id) = NULL THEN history
    ELSE IF outcome = "ok" THEN history \cup {"executor_success"}
    ELSE history \cup {"executor_error"}

\* ExecutorNode that drops the sub-questions after the first from the plan
ExecutorNode_truncates ==
    /\ node = "executor"
    /\ IF current_step_id = NULL
       THEN /\ history' = history \cup {"executor_no_step"}
            /\ UNCHANGED steps
       ELSE \E outcome \in AgentOutcomes :
              \E output \in StageOutputs(get_current_stage(steps, current_step_id)) :
                 /\ steps' = executor_step(steps, current_step_id, outcome, output)
                 /\ history' = executor_history(steps, current_step_id, outcome)
    /\ node' = "next_subquestion"
    /\ UNCHANGED <<question, current_step_id, finished, final_answer,
                   reasoner_runs>>
    /\ UNCHANGED <<callvars, outervars>>
    /\ plan' = IF Len(plan) > 1 THEN SubSeq(plan, 1, 1) ELSE plan

ExecutorNode ==
    /\ node = "executor"
    /\ IF current_step_id = NULL
       THEN /\ history' = history \cup {"executor_no_step"}
            /\ UNCHANGED steps
       ELSE \E outcome \in AgentOutcomes :
              \E output \in StageOutputs(get_current_stage(steps, current_step_id)) :
                 /\ steps' = executor_step(steps, current_step_id, outcome, output)
                 /\ history' = executor_history(steps, current_step_id, outcome)
    /\ node' = "next_subquestion"
    /\ UNCHANGED <<question, plan, current_step_id, finished, final_answer,
                   reasoner_runs>>
    /\ UNCHANGED <<callvars, outervars>>

\* steps whose legacy status lets the synthesizer use their result and that
\* carry a final result
synth_step_outputs(st) ==
    {id \in StepIds : /\ st[id].exists
                      /\ st[id].status \in {"finalized", "executed", "done"}
                      /\ st[id].final_result # NULL}

RECURSIVE last_step_output(_, _, _)
\* the result of the last step among the step outputs, scanning the steps
\* in their order from position i down (NULL when there is none)
last_step_output(p, st, i) ==
    IF i = 0 THEN NULL
    ELSE IF p[i].id \in synth_step_outputs(st) THEN st[p[i].id].final_result
    ELSE last_step_output(p, st, i - 1)

\* the local fallback: the last step output as it is
fallback_answer(p, st) == last_step_output(p, st, Len(p))

\* history events of synthesizer_node by the outcome of the agent call
SynthesizerEvents(outcome) ==
    IF outcome = "ok" THEN {"synthesizer_agent_ok"}
    ELSE IF outcome = "instantiate_failed"
    THEN {"synthesizer_instantiate_failed", "synthesizer_fallback_used"}
    ELSE IF outcome = "raises"
    THEN {"synthesizer_agent_exception", "synthesizer_fallback_used"}
    ELSE {"synthesizer_agent_error", "synthesizer_fallback_used"}

SynthesizerNode ==
    /\ node = "synthesizer"
    /\ IF final_answer # NULL
       THEN /\ history' = history \cup {"synthesizer_already_answer"}
            /\ UNCHANGED final_answer
       ELSE IF synth_step_outputs(steps) = {}
       THEN /\ history' = history \cup {"synthesizer_no_step_outputs"}
            /\ UNCHANGED final_answer
       ELSE \E outcome \in AgentOutcomes :
              /\ final_answer' = IF outcome = "ok" THEN "answer"
                                  ELSE fallback_answer(plan, steps)
              /\ history' = history \cup SynthesizerEvents(outcome)
    /\ node' = "END"
    /\ UNCHANGED <<question, plan, steps, current_step_id, finished,
                   reasoner_runs>>
    /\ UNCHANGED <<callvars, outervars>>

Init ==
    /\ node = "planner"
    /\ question \in {"", "Q"}
    /\ plan = <<>>
    /\ steps = [id \in StepIds |-> StepExecutionState(FALSE)]
    /\ current_step_id = NULL
    /\ finished = FALSE
    /\ final_answer = NULL
    /\ reasoner_runs = [id \in StepIds |-> 0]
    /\ history = {}
    /\ call_args = <<>>
    /\ call_result = <<>>
    /\ OuterIdle

Next ==
    \/ PlannerNode
    \/ NextSubquestionNode
    \/ ReasonerNode
    \/ ExecutorNode
    \/ SynthesizerNode

Spec == Init /\ [][Next]_vars

\* the graph runtime runs the next node whenever there is one
FairSpec == Spec /\ WF_vars(Next)

----------------------------------------------------------------------------
(* The context API driven directly: a plan is set, then expected stages,   *)
(* stage completions and the scheduling helper are applied in any order.   *)

CtxSetExpectedStages ==
    \E id \in StepIds, stages \in [Stages -> BOOLEAN] :
        /\ steps' = set_expected_stages(steps, id, stages)
        /\ UNCHANGED <<node, question, plan, current_step_id, finished,
                       final_answer, reasoner_runs, history>>
        /\ UNCHANGED <<callvars, outervars>>

CtxMarkStageCompleted ==
    \E id \in StepIds, stage \in Stages :
        /\ steps' = mark_stage_completed(steps, id, stage)
        /\ UNCHANGED <<node, question, plan, current_step_id, finished,
                       final_answer, reasoner_runs, history>>
        /\ UNCHANGED <<callvars, outervars>>

\* select_next_step followed by start_step on the id it returned
CtxStartNextStep ==
    LET id == select_next_step(plan, steps) IN
        /\ id # NULL
        /\ current_step_id' = id
        /\ steps' = ensure_execution_step(steps, id)
        /\ UNCHANGED <<node, question, plan, finished, final_answer,
                       reasoner_runs, history>>
        /\ UNCHANGED <<callvars, outervars>>

InitCtx ==
    /\ node = "api"
    /\ question = "Q"
    /\ plan \in Plans
    /\ steps = [id \in StepIds |-> StepExecutionState(FALSE)]
    /\ current_step_id = NULL
    /\ finished = FALSE
    /\ final_answer = NULL
    /\ reasoner_runs = [id \in StepIds |-> 0]
    /\ history = {}
    /\ call_args = <<>>
    /\ call_result = <<>>
    /\ OuterIdle

NextCtx ==
    \/ CtxSetExpectedStages
    \/ CtxMarkStageCompleted
    \/ CtxStartNextStep

SpecCtx == InitCtx /\ [][NextCtx]_vars

----------------------------------------------------------------------------
(* Operations driven on their own: the arguments are drawn from a bounded   *)
(* set, the operation runs once and its return value is kept.               *)

enginevars == <<node, question, plan, steps, current_step_id, finished,
                final_answer, reasoner_runs, history>>

\* the engine while a single operation is called
IdleEngine ==
    /\ node = "call"
    /\ question = "Q"
    /\ plan = <<>>
    /\ steps = [id \in StepIds |-> StepExecutionState(FALSE)]
    /\ current_step_id = NULL
    /\ finished = FALSE
    /\ final_answer = NULL
    /\ reasoner_runs = [id \in StepIds |-> 0]
    /\ history = {}
    /\ OuterIdle

(* ReasonerAgent decide_next_stage:                                         *)
(* src/agents/ReasonerAgent/operations/decide_next_stage.py                 *)

\* confidence threshold 0.5 of a viable hypothesis, in hundredths
MIN_CONFIDENCE == 50

\* most hypotheses in one decision
MaxHypotheses == 3

\* confidences in hundredths; a hypothesis without the key counts as 0
Confidences == {0, 49, 50, 90}

\* a decision as the LLM returns it, reduced to the confidences of its
\* hypotheses and final_decision.selected_hypothesis
LLMDecisions ==
    [hypotheses : UNION {[1..n -> Confidences] : n \in 0..MaxHypotheses},
     selected_hypothesis : -1..MaxHypotheses]

\* viable with a strict comparison against the threshold
viable_strict(h) == {i \in 1..Len(h) : h[i] > MIN_CONFIDENCE}

\* positions (1-based) of the hypotheses with confidence >= 0.5
viable(h) == {i \in 1..Len(h) : h[i] >= MIN_CONFIDENCE}

\* max(viable, key=confidence): the first position of maximal confidence
best_idx(h) ==
    CHOOSE i \in viable(h) :
        \A j \in viable(h) : h[j] < h[i] \/ (h[j] = h[i] /\ i <= j)

\* _apply_deterministic_selection; list indices are 0-based
apply_deterministic_selection(d) ==
    IF Len(d.hypotheses) = 0 THEN [d EXCEPT !.selected_hypothesis = -1]
    ELSE IF viable(d.hypotheses) = {} THEN [d EXCEPT !.selected_hypothesis = -1]
    ELSE [d EXCEPT !.selected_hypothesis = best_idx(d.hypotheses) - 1]

ApplyDeterministicSelection ==
    /\ call_result = <<>>
    /\ call_result' = <<apply_deterministic_selection(call_args)>>
    /\ UNCHANGED call_args
    /\ UNCHANGED <<enginevars, outervars>>

InitSelection ==
    /\ IdleEngine
    /\ call_args \in LLMDecisions
    /\ call_result = <<>>

NextSelection == ApplyDeterministicSelection

SpecSelection == InitSelection /\ [][NextSelection]_vars

(* PlannerAgent plan validation:                                            *)
(* src/agents/PlannerAgent/decomposition_rules.py                           *)

\* most sub-questions in a decomposition handed to the validation
MaxSubquestions == 2

\* decompositions: any ids (repeated or not), depends_on as a list of
\* distinct ids, and whether the text passes _is_atomic_question
Decompositions ==
    UNION {[1..n -> [id : StepIds, depends_on : IdOrders, atomic : BOOLEAN]] :
              n \in 0..MaxSubquestions}

\* keys of the dict "graph" built by _has_cycles
graph_keys(subqs) == {subqs[i].id : i \in 1..Len(subqs)}

\* graph.get(node, []): a later sub-question with the same id overwrites
\* the entry of an earlier one
graph_get(subqs, n) ==
    LET idx == {i \in 1..Len(subqs) : subqs[i].id = n} IN
    IF idx = {} THEN <<>>
    ELSE subqs[CHOOSE i \in idx : \A j \in idx : j <= i].depends_on

\* keys in insertion order: order of the first occurrence of each id
RECURSIVE graph_order(_, _)
graph_order(subqs, i) ==
    IF i > Len(subqs) THEN <<>>
    ELSE IF \E j \in 1..(i - 1) : subqs[j].id = subqs[i].id
         THEN graph_order(subqs, i + 1)
         ELSE <<subqs[i].id>> \o graph_order(subqs, i + 1)

\* dfs of _has_cycles; s carries visited, rec_stack and the value returned
RECURSIVE dfs(_, _, _)
RECURSIVE dfs_neighbors(_, _, _, _)
dfs(subqs, n, s) ==
    IF n \in s.rec_stack THEN [s EXCEPT !.found = TRUE]
    ELSE IF n \in s.visited THEN [s EXCEPT !.found = FALSE]
    ELSE LET s1 == [found |-> FALSE,
                    visited |-> s.visited \cup {n},
                    rec_stack |-> s.rec_stack \cup {n}]
             s2 == dfs_neighbors(subqs, graph_get(subqs, n), 1, s1)
         IN  IF s2.found THEN s2
             ELSE [s2 EXCEPT !.rec_stack = @ \ {n}]

dfs_neighbors(subqs, nb, i, s) ==
    IF i > Len(nb) THEN [s EXCEPT !.found = FALSE]
    ELSE LET s1 == dfs(subqs, nb[i], s) IN
         IF s1.found THEN s1 ELSE dfs_neighbors(subqs, nb, i + 1, s1)

\* any(dfs(node) for node in graph)
RECURSIVE any_dfs(_, _, _, _)
any_dfs(subqs, keys, i, s) ==
    IF i > Len(keys) THEN FALSE
    ELSE LET s1 == dfs(subqs, keys[i], s) IN
         IF s1.found THEN TRUE ELSE any_dfs(subqs, keys, i + 1, s1)

\* has_cycles that only looks for a sub-question depending on itself
has_cycles_selfonly(subqs) ==
    \E n \in graph_keys(subqs) :
        \E i \in 1..Len(graph_get(subqs, n)) : graph_get(subqs, n)[i] = n

has_cycles(subqs) ==
    IF graph_keys(subqs) = {} THEN FALSE
    ELSE any_dfs(subqs, graph_order(subqs, 1), 1,
                 [found |-> FALSE, visited |-> {}, rec_stack |-> {}])

\* validate_decomposition: the rule ids of the issues, and is_valid
validate_decomposition(d) ==
    LET issues ==
            (IF \E i \in 1..Len(d) : ~d[i].atomic THEN {"subq_atomic"} ELSE {})
            \cup (IF has_cycles(d) THEN {"no_cycles"} ELSE {})
    IN  [is_valid |-> issues = {}, issues |-> issues]

ValidateDecomposition ==
    /\ call_result = <<>>
    /\ call_result' = <<validate_decomposition(call_args)>>
    /\ UNCHANGED call_args
    /\ UNCHANGED <<enginevars, outervars>>

InitValidation ==
    /\ IdleEngine
    /\ call_args \in Decompositions
    /\ call_result = <<>>

NextValidation == ValidateDecomposition

SpecValidation == InitValidation /\ [][NextValidation]_vars

(* GraphContext.record_agent_call: src/model/context/context.py            *)

\* most entries of one step's agent_calls
MaxCalls == 3

\* results handed to record_agent_call: agent is NULL when the result does
\* not name its agent
AgentResults ==
    [agent : {NULL, "ToolAgent"}, status : {"ok", "error"}, ts : {now}]

\* one call record_agent_call(id, r); call_args keeps the arguments
CtxRecordAgentCall ==
    \E id \in StepIds, r \in AgentResults :
        /\ Len(steps[id].agent_calls) < MaxCalls
        /\ steps' = record_agent_call(steps, id, r)
        /\ call_args' = <<id, r>>
        /\ UNCHANGED <<node, question, plan, current_step_id, finished,
                       final_answer, reasoner_runs, history, call_result>>
        /\ UNCHANGED outervars

InitCalls ==
    /\ IdleEngine
    /\ call_args = <<>>
    /\ call_result = <<>>

NextCalls == CtxRecordAgentCall

SpecCalls == InitCalls /\ [][NextCalls]_vars

----------------------------------------------------------------------------
(* Timestamps: agent_result.py (ts), context.py record_agent_call and      *)
(* append_history_event.  Here history is the list of events itself, each  *)
(* with its type and timestamp, and the wall clock now only moves forward. *)

\* last reading of the clock
MaxTime == 2

\* most events of history
MaxEvents == 2

\* the event is copied, stamped with the current time and appended
append_history_event_front(h, type, t) ==
    <<[type |-> type, timestamp |-> t]>> \o h

append_history_event(h, type, t) ==
    Append(h, [type |-> type, timestamp |-> t])

\* time passes
Tick ==
    /\ now < MaxTime
    /\ now' = now + 1
    /\ UNCHANGED <<enginevars, callvars, llm_cache, engine_cache, threads,
                   created, cancel_requested>>

\* the executor runs the operation of the current step: the result is
\* constructed, and stamped, when the operation returns
ExecuteOperation ==
    /\ call_result = <<>>
    /\ Len(steps[current_step_id].agent_calls) < MaxCalls
    /\ Len(history) < MaxEvents
    /\ \E r \in {x \in AgentResults : x.agent # NULL /\ x.status = "ok"} :
          /\ call_args' = <<current_step_id, r>>
          /\ call_result' = <<r>>
    /\ UNCHANGED <<enginevars, outervars>>

\* the executor records the result it holds and appends its history event
RecordExecution ==
    /\ call_result # <<>>
    /\ steps' = record_agent_call(steps, current_step_id, call_result[1])
    /\ history' = append_history_event(history, "executor_success", now)
    /\ call_result' = <<>>
    /\ UNCHANGED <<node, question, plan, current_step_id, finished,
                   final_answer, reasoner_runs, call_args>>
    /\ UNCHANGED outervars

\* any other event a node or a context method appends
AppendHistoryEvent ==
    /\ Len(history) < MaxEvents
    /\ history' = append_history_event(history, "plan_set", now)
    /\ UNCHANGED <<node, question, plan, steps, current_step_id, finished,
                   final_answer, reasoner_runs>>
    /\ UNCHANGED <<callvars, outervars>>

InitTime ==
    /\ node = "call"
    /\ question = "Q"
    /\ plan = <<SubQuestion("q1", {})>>
    /\ steps = [id \in StepIds |-> StepExecutionState(id = "q1")]
    /\ current_step_id = "q1"
    /\ finished = FALSE
    /\ final_answer = NULL
    /\ reasoner_runs = [id \in StepIds |-> 0]
    /\ history = <<>>
    /\ call_args = <<>>
    /\ call_result = <<>>
    /\ OuterIdle

NextTime ==
    \/ Tick
    \/ ExecuteOperation
    \/ RecordExecution
    \/ AppendHistoryEvent

SpecTime == InitTime /\ [][NextTime]_vars

----------------------------------------------------------------------------
(* The synthesizer node entered with steps the legacy nodes have finished  *)
(* (synthesizer.py reads status and final_result of every step).           *)

\* final results of a step: NULL (none), a text, a list of rows
FinalResults == {NULL, "text", "rows"}

\* str(v): a text is itself, a list is its printed form
Str(v) == IF v = "rows" THEN "str(rows)" ELSE v

\* a step as the legacy nodes leave it
LegacyStep(status, result) ==
    [StepExecutionState(TRUE) EXCEPT !.status = status,
                                     !.final_result = result]

InitSynth ==
    /\ node = "synthesizer"
    /\ question = "Q"
    /\ plan \in {p \in Plans : Len(p) = 2}
    /\ steps \in [StepIds -> {LegacyStep(s, r) :
                                s \in {"pending", "finalized", "done"},
                                r \in FinalResults}]
    /\ current_step_id = NULL
    /\ finished = FALSE
    /\ final_answer \in {NULL, "answer"}
    /\ reasoner_runs = [id \in StepIds |-> 0]
    /\ history = {}
    /\ call_args = <<>>
    /\ call_result = <<>>
    /\ OuterIdle

NextSynth == SynthesizerNode

SpecSynth == InitSynth /\ [][NextSynth]_vars

----------------------------------------------------------------------------
(* BaseAgent.execute_operation (agents/base.py) called directly.           *)

\* operations the agent has loaded, and one it has not
RegisteredOperations == {"list_books", "analyze", "validate_result", "plan"}

OperationNames == RegisteredOperations \cup {"unknown_op"}

\* the stage an operation tags its own results with
OperationStage(op) ==
    IF op = "list_books" THEN "data_fetch"
    ELSE IF op = "analyze" THEN "data_processing"
    ELSE IF op = "validate_result" THEN "result_validation"
    ELSE "planning"

\* what run does: returns an ok result, returns an error result, raises,
\* returns something that is not an AgentResult
RunBehaviours == {"ok", "error", "raises", "not_result"}

\* a call: the operation name, whether params lacks a field the
\* params_schema marks required, what run does, and whether the result of
\* run already names its agent
OperationCalls ==
    [operation : OperationNames, missing_required : BOOLEAN,
     run : RunBehaviours, names_agent : BOOLEAN]

\* AgentResult.error(message, stage): the first argument becomes the error
\* text, the second the stage; agent and operation stay unset
AgentResult_error(message, stage) ==
    [raised |-> FALSE, run_invoked |-> TRUE, status |-> "error",
     stage |-> stage, error |-> message, agent |-> NULL, operation |-> NULL]

\* the text built from the exception in the except branch
FailureText == "operation failed: exc"

\* the outcome of execute_operation: raised tells that an exception left
\* the call, run_invoked that the run method was called
execute_operation(c) ==
    IF c.operation \notin RegisteredOperations
    THEN [raised |-> TRUE, run_invoked |-> FALSE, status |-> NULL,
          stage |-> NULL, error |-> NULL, agent |-> NULL, operation |-> NULL]
    ELSE IF c.run \in {"raises", "not_result"}
    THEN AgentResult_error("operation_execution", FailureText)
    ELSE [raised |-> FALSE, run_invoked |-> TRUE,
          status |-> c.run,
          stage |-> OperationStage(c.operation),
          error |-> IF c.run = "error" THEN "operation error" ELSE NULL,
          agent |-> IF c.names_agent THEN "OtherAgent" ELSE "Agent",
          operation |-> c.operation]

CallExecuteOperation ==
    /\ call_result = <<>>
    /\ call_result' = <<execute_operation(call_args)>>
    /\ UNCHANGED <<enginevars, call_args, outervars>>

InitExec ==
    /\ IdleEngine
    /\ call_args \in OperationCalls
    /\ call_result = <<>>

NextExec == CallExecuteOperation

SpecExec == InitExec /\ [][NextExec]_vars

----------------------------------------------------------------------------
(* Shared caches used from several threads: ensure_llm                     *)
(* (services/llm_service/factory.py, cache.py) and get_engine              *)
(* (services/db_service/connection.py).  A thread is idle, or inside one   *)
(* call for the key it holds: pc is its position, local its local variable *)
(* (llm / engine).  created is the set of all instances ever constructed.  *)

othervars == <<enginevars, callvars, now, cancel_requested>>

\* a fresh instance for key k
NewInstance(k) == <<k, Cardinality({i \in created : i[1] = k}) + 1>>

\* llm = get_cached_llm(profile_name): one read under _LLM_LOCK
EnsureLlmGet(t, p) ==
    /\ threads[t].pc = "idle"
    /\ threads' = [threads EXCEPT ![t] = [pc |-> "llm_checked", key |-> p,
                                          local |-> llm_cache[p]]]
    /\ UNCHANGED <<llm_cache, engine_cache, created, othervars>>

\* llm is not None: the cached instance is returned
EnsureLlmHit(t) ==
    /\ threads[t].pc = "llm_checked"
    /\ threads[t].local # NoInstance
    /\ threads' = [threads EXCEPT ![t].pc = "returned"]
    /\ UNCHANGED <<llm_cache, engine_cache, created, othervars>>

\* llm = create_llm(profile_name), outside the lock; None when the profile
\* cannot be built, and then None is returned
EnsureLlmCreate(t) ==
    /\ threads[t].pc = "llm_checked"
    /\ threads[t].local = NoInstance
    /\ \/ /\ threads' = [threads EXCEPT
                            ![t].pc = "llm_created",
                            ![t].local = NewInstance(threads[t].key)]
          /\ created' = created \cup {NewInstance(threads[t].key)}
       \/ /\ threads' = [threads EXCEPT ![t].pc = "returned"]
          /\ UNCHANGED created
    /\ UNCHANGED <<llm_cache, engine_cache, othervars>>

\* cache_llm(profile_name, llm): one write under _LLM_LOCK; return llm
EnsureLlmCache(t) ==
    /\ threads[t].pc = "llm_created"
    /\ llm_cache' = [llm_cache EXCEPT ![threads[t].key] = threads[t].local]
    /\ threads' = [threads EXCEPT ![t].pc = "returned"]
    /\ UNCHANGED <<engine_cache, created, othervars>>

\* if db_uri in _ENGINE_CACHE: return _ENGINE_CACHE[db_uri]
GetEngineCheck(t, u) ==
    /\ threads[t].pc = "idle"
    /\ threads' = [threads EXCEPT ![t] =
                      [pc |-> IF engine_cache[u] # NoInstance
                              THEN "returned" ELSE "engine_missed",
                       key |-> u, local |-> engine_cache[u]]]
    /\ UNCHANGED <<llm_cache, engine_cache, created, othervars>>

\* engine = create_engine(db_uri, future=True)
GetEngineCreate(t) ==
    /\ threads[t].pc = "engine_missed"
    /\ threads' = [threads EXCEPT ![t].pc = "engine_created",
                                  ![t].local = NewInstance(threads[t].key)]
    /\ created' = created \cup {NewInstance(threads[t].key)}
    /\ UNCHANGED <<llm_cache, engine_cache, othervars>>

\* _ENGINE_CACHE[db_uri] = engine; return engine
GetEngineStore(t) ==
    /\ threads[t].pc = "engine_created"
    /\ engine_cache' = [engine_cache EXCEPT
                           ![threads[t].key] = threads[t].local]
    /\ threads' = [threads EXCEPT ![t].pc = "returned"]
    /\ UNCHANGED <<llm_cache, created, othervars>>

\* the caller has its return value and goes on
CallReturns(t) ==
    /\ threads[t].pc = "returned"
    /\ threads' = [threads EXCEPT ![t] = ThreadIdle]
    /\ UNCHANGED <<llm_cache, engine_cache, created, othervars>>

InitShared ==
    /\ IdleEngine
    /\ call_args = <<>>
    /\ call_result = <<>>

NextLLM ==
    \E t \in Threads :
        \/ \E p \in Profiles : EnsureLlmGet(t, p)
        \/ EnsureLlmHit(t)
        \/ EnsureLlmCreate(t)
        \/ EnsureLlmCache(t)
        \/ CallReturns(t)

SpecLLM == InitShared /\ [][NextLLM]_vars

NextEngine ==
    \E t \in Threads :
        \/ \E u \in DbUris : GetEngineCheck(t, u)
        \/ GetEngineCreate(t)
        \/ GetEngineStore(t)
        \/ CallReturns(t)

SpecEngine == InitShared /\ [][NextEngine]_vars

----------------------------------------------------------------------------
(* AgentRegistry.instantiate_agent (agents/registry.py).                   *)

\* most agent instances constructed
MaxInstantiations == 4

\* registry entries whose implementation is a class
ClassAgents == {"BooksLibraryAgent", "DataAnalysisAgent", "SynthesizerAgent"}

\* registry entries whose implementation is a plain function
FunctionAgents == {"function_agent"}

\* the registry holds no instances: a class implementation is constructed
\* on every call, a function implementation is returned itself
instantiate_agent(name) ==
    IF name \in ClassAgents THEN NewInstance(name) ELSE <<name, 0>>

\* one call instantiate_agent(name, override_config=override)
InstantiateAgent ==
    \E name \in ClassAgents \cup FunctionAgents, override \in BOOLEAN :
        /\ Cardinality(created) < MaxInstantiations
        /\ call_args' = <<name, override>>
        /\ call_result' = <<instantiate_agent(name)>>
        /\ created' = IF name \in ClassAgents
                      THEN created \cup {instantiate_agent(name)}
                      ELSE created
        /\ UNCHANGED <<enginevars, llm_cache, engine_cache, threads, now,
                       cancel_requested>>

NextRegistry == InstantiateAgent

SpecRegistry == InitShared /\ [][NextRegistry]_vars

----------------------------------------------------------------------------
(* Serialization: GraphContext.to_dict and from_state_dict (context.py).   *)
(* A context value is the record of question, plan, steps, current step,   *)
(* history and final answer (kept in memory); its plain map is nested as   *)
(* model_dump nests it, with an entry in steps for the existing steps only.*)

\* the fields of the step model (exists says whether the step is in the
\* dictionary; status and final_result belong to the legacy step model)
StepFields ==
    DOMAIN StepExecutionState(TRUE) \ {"exists", "status", "final_result"}

GraphContext(q, p, st, cur, h, answer) ==
    [question |-> q, plan |-> p, steps |-> st, current_step_id |-> cur,
     history |-> h, final_answer |-> answer]

\* model_dump of the context
to_dict(ctx) ==
    [question |-> ctx.question,
     plan |-> [subquestions |->
                 [i \in 1..Len(ctx.plan) |->
                     [id |-> ctx.plan[i].id,
                      depends_on |-> ctx.plan[i].depends_on]]],
     execution |->
        [current_step_id |-> ctx.current_step_id,
         steps |-> [id \in {x \in StepIds : ctx.steps[x].exists} |->
                      [f \in StepFields |-> ctx.steps[id][f]]],
         history |-> ctx.history],
     memory |-> [final_answer |-> ctx.final_answer]]

\* StepExecutionState(**step_data): the given fields over the defaults
step_from_dict(step_data) ==
    [f \in DOMAIN StepExecutionState(TRUE) |->
        IF f \in DOMAIN step_data THEN step_data[f]
        ELSE StepExecutionState(TRUE)[f]]

\* the steps dictionary rebuilt from its plain map
steps_from_dict(steps_data) ==
    [id \in StepIds |->
        IF id \in DOMAIN steps_data THEN step_from_dict(steps_data[id])
        ELSE StepExecutionState(FALSE)]

\* from_state_dict that builds the execution context without its
\* current_step_id
from_state_dict_nocurrent(d) ==
    GraphContext(
        d.question,
        [i \in 1..Len(d.plan.subquestions) |->
            SubQuestion(d.plan.subquestions[i].id,
                        d.plan.subquestions[i].depends_on)],
        steps_from_dict(d.execution.steps),
        NULL,
        d.execution.history,
        d.memory.final_answer)

from_state_dict(d) ==
    GraphContext(
        d.question,
        [i \in 1..Len(d.plan.subquestions) |->
            SubQuestion(d.plan.subquestions[i].id,
                        d.plan.subquestions[i].depends_on)],
        steps_from_dict(d.execution.steps),
        d.execution.current_step_id,
        d.execution.history,
        d.memory.final_answer)

\* the context the nodes are working on
Context ==
    GraphContext(question, plan, steps, current_step_id, history,
                 final_answer)

----------------------------------------------------------------------------
(* A run during which the caller may signal cancellation.  No node reads   *)
(* the signal, so the nodes are the actions of the graph unchanged.        *)

\* the caller signals cancellation of the invocation
SignalCancellation ==
    /\ ~cancel_requested
    /\ cancel_requested' = TRUE
    /\ UNCHANGED <<enginevars, callvars, llm_cache, engine_cache, threads,
                   created, now>>

NextCancel ==
    \/ PlannerNode
    \/ NextSubquestionNode
    \/ ReasonerNode
    \/ ExecutorNode
    \/ SynthesizerNode
    \/ SignalCancellation

SpecCancel == Init /\ [][NextCancel]_vars

----------------------------------------------------------------------------
(* record_reasoner_decision (context.py) called with the output of the     *)
(* reasoner agent.  The validated output carries postprocessing.needed and *)
(* validation.needed; the keys needs_postprocessing and needs_validation   *)
(* are optional in it (<<>> = key absent, <<b>> = key present).            *)

ReasonerOutputs ==
    [postprocessing : [needed : BOOLEAN],
     validation : [needed : BOOLEAN],
     needs_postprocessing : {<<>>, <<TRUE>>, <<FALSE>>},
     needs_validation : {<<>>, <<TRUE>>, <<FALSE>>},
     selected_hypothesis : {-1, 0}]

\* the decision as record_reasoner_decision reads it: decision.get(key,
\* default) for the two flags, final_decision.selected_hypothesis
decision_read(out) ==
    [present |-> TRUE,
     needs_postprocessing |->
        IF out.needs_postprocessing = <<>> THEN FALSE
        ELSE out.needs_postprocessing[1],
     needs_validation |->
        IF out.needs_validation = <<>> THEN TRUE
        ELSE out.needs_validation[1],
     selected_hypothesis |-> out.selected_hypothesis,
     next_stage |-> NULL]

\* one call record_reasoner_decision(id, out)
CtxRecordReasonerDecision ==
    \E id \in StepIds, out \in ReasonerOutputs :
        /\ steps' = record_reasoner_decision(steps, id, decision_read(out))
        /\ call_args' = <<id, out>>
        /\ UNCHANGED <<node, question, plan, current_step_id, finished,
                       final_answer, reasoner_runs, history, call_result>>
        /\ UNCHANGED outervars

NextDecision == CtxRecordReasonerDecision

SpecDecision == InitShared /\ [][NextDecision]_vars

TypeOK ==
    /\ node \in {"planner", "next_subquestion", "reasoner", "executor",
                 "synthesizer", "END", "api", "call"}
    /\ current_step_id \in StepIds \cup {NULL}
    /\ plan \in Plans
    /\ \A id \in StepIds : steps[id].retry_count \in 0..(MAX_RETRIES + 1)

----------------------------------------------------------------------------
(* Properties *)

DepsOf(p, id) == UNION {p[i].depends_on : i \in {j \in 1..Len(p) : p[j].id = id}}

DepsCompleted(p, st, id) ==
    \A d \in DepsOf(p, id) : is_step_fully_completed(st, d)

\* plan indices of the sub-questions that are ready: not completed, and
\* every dependency completed
ReadyIndices(p, st) ==
    {i \in 1..Len(p) : /\ ~is_step_fully_completed(st, p[i].id)
                       /\ \A d \in p[i].depends_on :
                             is_step_fully_completed(st, d)}

MinOf(S) == CHOOSE x \in S : \A y \in S : x <= y

\* C1: whenever the scheduler node has made a sub-question the current step
\* (control is at the reasoner), every sub-question in its depends_on is
\* fully completed.
C1_SchedulerRespectsDeps ==
    (node = "reasoner" /\ current_step_id # NULL)
        => DepsCompleted(plan, steps, current_step_id)

\* C2: select_next_step never returns a step one of whose dependencies is
\* not fully completed.
C2_SelectOnlyReady ==
    LET r == select_next_step(plan, steps) IN
        r # NULL => DepsCompleted(plan, steps, r)

C2_Witness ==
    /\ node = "api"
    /\ Len(plan) = 2
    /\ plan[2] = SubQuestion("q2", {"q1"})
    /\ is_step_fully_completed(steps, "q1")
    /\ current_step_id = "q2"
    /\ select_next_step(plan, steps) = "q2"

\* C3: select_next_step returns the ready sub-question of lowest plan index,
\* and null exactly when no sub-question is ready.
C3_SelectLowestReady ==
    LET r == select_next_step(plan, steps)
        R == ReadyIndices(plan, steps)
    IN  IF R = {} THEN r = NULL ELSE r = plan[MinOf(R)].id

C3_Witness ==
    /\ node = "api"
    /\ ReadyIndices(plan, steps) = {1, 2}
    /\ plan[1].id = "q2"
    /\ current_step_id = "q2"

\* C4: every invocation of the graph terminates: the run eventually reaches
\* the end node.
C4_RunTerminates == <>(node = "END")

\* a step that was force-completed after its retries ran out
ForceCompleted(id) ==
    /\ steps[id].exists
    /\ steps[id].completed
    /\ steps[id].retry_count = MAX_RETRIES
    /\ steps[id].completed_stages["validation"]
    /\ steps[id].validation_result = "invalid"

\* C5: once a step has been force-completed after MAX_RETRIES retries, the
\* run goes on to the synthesizer.
C5_ForceCompletedReachesSynthesizer ==
    (\E id \in StepIds : ForceCompleted(id)) ~> (node \in {"synthesizer", "END"})

\* C6: the reasoner node runs at most LoopBudget times for one step.
C6_LoopBudgetHolds ==
    \A id \in StepIds : reasoner_runs[id] <= LoopBudget

\* C7: retry_count of every step is at most MAX_RETRIES.
C7_RetryCountBounded ==
    \A id \in StepIds : steps[id].retry_count <= MAX_RETRIES

C7_Witness == \E id \in StepIds : ForceCompleted(id)

C11_ExpectedNeverReduced ==
    [][\A id \in StepIds : \A s \in Stages :
          steps[id].expected_stages[s] => steps'[id].expected_stages[s]]_vars

C13_DeterministicSelection ==
    call_result # <<>> =>
        LET h   == call_args.hypotheses
            out == call_result[1].selected_hypothesis
            V   == {i \in 1..Len(h) : h[i] >= MIN_CONFIDENCE}
        IN  /\ IF V = {} THEN out = -1
               ELSE /\ out + 1 \in V
                    /\ \A j \in V : h[j] <= h[out + 1]
            /\ \A d \in LLMDecisions :
                  d.hypotheses = h =>
                     apply_deterministic_selection(d).selected_hypothesis = out

C13_Witness ==
    /\ call_result # <<>>
    /\ call_args.hypotheses = <<49, 50, 90>>
    /\ call_args.selected_hypothesis = 0
    /\ call_result[1].selected_hypothesis = 2

\* C14: the scheduler node never makes a failed step the current step.
C14_FailedStepNotReselected ==
    [][(node = "next_subquestion" /\ current_step_id' # NULL)
          => ~step_failed(steps, current_step_id')]_vars

RECURSIVE ReachFrom(_, _, _)
ReachFrom(p, S, n) ==
    IF n = 0 THEN S
    ELSE ReachFrom(p, S \cup UNION {DepsOf(p, x) : x \in S}, n - 1)

\* the depends_on relation of p has a directed cycle
HasCycle(p) ==
    \E id \in PlanIds(p) : id \in ReachFrom(p, DepsOf(p, id), Len(p))

UniqueIds(p) == \A i, j \in 1..Len(p) : i # j => p[i].id # p[j].id

KnownDeps(p) == \A i \in 1..Len(p) : p[i].depends_on \subseteq PlanIds(p)

\* C16: after the planner node the stored plan has unique ids, depends_on
\* naming only ids of the plan, and no dependency cycle.
C16_StoredPlanWellFormed ==
    node # "planner" =>
        /\ UniqueIds(plan)
        /\ KnownDeps(plan)
        /\ ~HasCycle(plan)

\* a decomposition as a plan: depends_on lists as sets
AsPlan(d) ==
    [i \in 1..Len(d) |->
        SubQuestion(d[i].id,
                    {d[i].depends_on[k] : k \in 1..Len(d[i].depends_on)})]

\* the cycle issue is reported, and the plan declared invalid, exactly when
\* the depends_on relation of the validated sub-questions has a cycle
CycleReportMatches ==
    IF HasCycle(AsPlan(call_args))
    THEN /\ "no_cycles" \in call_result[1].issues
         /\ ~call_result[1].is_valid
    ELSE "no_cycles" \notin call_result[1].issues

\* C17 (as stated): validation reports the cycle issue and declares the plan
\* invalid exactly when the depends_on relation of the sub-questions has a
\* directed cycle (a sub-question depending on itself included).
C17_CycleReportedIffCyclic ==
    call_result # <<>> => CycleReportMatches

\* C17 (amended): for sub-questions with pairwise distinct ids, validation
\* reports the cycle issue and declares the plan invalid exactly when the
\* depends_on relation has a directed cycle.
C17_CycleReportedIffCyclicDistinctIds ==
    (call_result # <<>> /\ UniqueIds(AsPlan(call_args))) => CycleReportMatches

C17_Witness ==
    /\ call_result # <<>>
    /\ Len(call_args) = 2
    /\ call_args[1].id = "q1" /\ call_args[1].depends_on = <<"q2">>
    /\ call_args[2].id = "q2" /\ call_args[2].depends_on = <<"q1">>
    /\ call_args[1].atomic /\ call_args[2].atomic
    /\ call_result[1] = [is_valid |-> FALSE, issues |-> {"no_cycles"}]

\* C18: after the planner node has fallen back to the one-step plan (and
\* recorded the fallback in the history), the run proceeds to a final answer.
C18_FallbackRunAnswers ==
    ("planner_fallback_created_step" \in history) ~> (final_answer # NULL)

\* C19: the plan is read-only after the planner node: no later node changes
\* the list of sub-questions, their order, ids or depends_on.
C19_PlanReadOnlyAfterPlanner ==
    [][node # "planner" => plan' = plan]_vars

C19_Witness ==
    /\ node = "next_subquestion"
    /\ Len(plan) = 2
    /\ plan[1].depends_on # {}
    /\ "executor_success" \in history
    /\ "step_completed" \in history

\* C20: every recording of a result appends exactly one entry, the record
\* of that result, to the end of the step's agent_calls and changes no
\* earlier entry and no other step's log.
C20_AgentCallsAppendOnly ==
    [][LET id == call_args'[1]
           r  == call_args'[2]
       IN  /\ steps'[id].agent_calls
                = Append(steps[id].agent_calls, call_record(r))
           /\ \A other \in StepIds \ {id} :
                 steps'[other].agent_calls = steps[other].agent_calls]_vars

\* the same result recorded twice in a row gives two equal entries
C20_Witness ==
    /\ call_args # <<>>
    /\ LET log == steps[call_args[1]].agent_calls IN
          /\ Len(log) = 2
          /\ log[1] = log[2]
          /\ log[2] = call_record(call_args[2])

\* C21: every operation the executor node dispatches for the current step
\* adds exactly one entry to that step's agent_calls, whether the call
\* succeeds or fails, and touches no other step's log.
C21_EveryDispatchLogged ==
    [][(/\ node = "executor"
        /\ current_step_id # NULL
        /\ steps[current_step_id].exists
        /\ get_tool_call_for_executor(steps, current_step_id) # NULL)
          => /\ Len(steps'[current_step_id].agent_calls)
                  = Len(steps[current_step_id].agent_calls) + 1
             /\ \A id \in StepIds \ {current_step_id} :
                   steps'[id].agent_calls = steps[id].agent_calls]_vars

\* timestamps along a list of records never decrease
TimeOrdered(log) ==
    \A i, j \in 1..Len(log) : i < j => log[i].timestamp <= log[j].timestamp

C23_FallbackAnswerIsString ==
    [][(/\ node = "synthesizer"
        /\ final_answer = NULL
        /\ synth_step_outputs(steps) # {}
        /\ "synthesizer_agent_ok" \notin history')
          => /\ final_answer' = Str(fallback_answer(plan, steps))
             /\ "synthesizer_fallback_used" \in history']_vars

\* C24: when running a loaded operation raises, execute_operation lets no
\* exception out and returns an error result whose error text is the
\* failure message and whose stage is the stage of the operation.
C24_ExceptionWrappedWithStage ==
    (/\ call_result # <<>>
     /\ call_args.operation \in RegisteredOperations
     /\ call_args.run \in {"raises", "not_result"})
       => /\ ~call_result[1].raised
          /\ call_result[1].status = "error"
          /\ call_result[1].error = FailureText
          /\ call_result[1].stage = OperationStage(call_args.operation)

\* C25: when params lacks a field the operation's params_schema marks as
\* required, execute_operation returns an error result and the run method
\* of the operation is not invoked.
C25_MissingRequiredParamRejected ==
    (/\ call_result # <<>>
     /\ call_args.operation \in RegisteredOperations
     /\ call_args.missing_required)
       => /\ call_result[1].status = "error"
          /\ ~call_result[1].run_invoked

\* callers that hold the value returned to them for key k
ReturnedFor(k) ==
    {t \in Threads : /\ threads[t].pc = "returned"
                     /\ threads[t].key = k
                     /\ threads[t].local # NoInstance}

\* C26: under any interleaving of ensure_llm calls, concurrent ones
\* included, at most one LLM handle is ever created for a profile, all
\* callers of that profile that receive a handle receive the cached one, and
\* handles of distinct profiles are distinct.
C26_OneLlmPerProfile ==
    /\ \A p \in Profiles :
          /\ Cardinality({i \in created : i[1] = p}) <= 1
          /\ \A t \in ReturnedFor(p) : threads[t].local = llm_cache[p]
    /\ \A p, q \in Profiles :
          (p # q /\ llm_cache[p] # NoInstance) => llm_cache[p] # llm_cache[q]

\* C27: under any interleaving of get_engine calls, concurrent ones
\* included, only one engine is ever created for a connection string and
\* every caller receives that engine.
C27_OneEnginePerUri ==
    \A u \in DbUris :
        /\ Cardinality({i \in created : i[1] = u}) <= 1
        /\ \A t \in ReturnedFor(u) : threads[t].local = engine_cache[u]

\* C28: instantiate constructs the instance of an agent on the first call
\* for its name only: a later call with the same name constructs nothing
\* and returns the instance of the first call.
C28_InstantiateOnceAndCache ==
    [][\A name \in ClassAgents :
          (call_args'[1] = name /\ <<name, 1>> \in created)
             => /\ created' = created
                /\ call_result' = <<(<<name, 1>>)>>]_vars

C30_CancelledNodeDoesNothing ==
    [][cancel_requested
          => /\ plan' = plan
             /\ steps' = steps
             /\ "cancelled" \in history']_vars

\* the reasoner node is entered for a current step whose validation stage
\* has completed with an invalid result and that may still be retried
RetryCase ==
    /\ node = "reasoner"
    /\ current_step_id # NULL
    /\ is_stage_completed(steps, current_step_id, "validation")
    /\ steps[current_step_id].validation_result # "valid"
    /\ steps[current_step_id].retry_count < MAX_RETRIES

\* C31: when the reasoner node runs for a step whose validation completed
\* with an invalid result and retry_count < MAX_RETRIES, it clears every
\* completed stage flag, raw_output and validation_result, adds exactly one
\* to retry_count and does not mark the step completed.
C31_RetryResetsStep ==
    [][RetryCase
          => /\ steps'[current_step_id].completed_stages = AllFalse
             /\ steps'[current_step_id].raw_output = NULL
             /\ steps'[current_step_id].validation_result = NULL
             /\ steps'[current_step_id].retry_count
                   = steps[current_step_id].retry_count + 1
             /\ ~steps'[current_step_id].completed
             /\ steps'[current_step_id].expected_stages
                   = steps[current_step_id].expected_stages
             /\ "step_completed" \in history' <=> "step_completed" \in history
       ]_vars

\* right after a first retry: the step is reset, one retry is counted, the
\* decision and the log of the failed attempt are still there
C31_Witness ==
    /\ current_step_id # NULL
    /\ node # "reasoner"
    /\ steps[current_step_id].retry_count = 1
    /\ steps[current_step_id].completed_stages = AllFalse
    /\ steps[current_step_id].raw_output = NULL
    /\ steps[current_step_id].validation_result = NULL
    /\ ~steps[current_step_id].completed
    /\ steps[current_step_id].expected_stages["validation"]
    /\ Len(steps[current_step_id].agent_calls) = 2

\* number of fetch executions recorded for a step
FetchCalls(id) ==
    Cardinality({i \in 1..Len(steps[id].agent_calls) :
                    steps[id].agent_calls[i].agent = "ToolAgent"})

\* the one step of the plan has been retried once and its second result
\* has passed validation
RetriedAndValid ==
    /\ Len(plan) = 1
    /\ current_step_id = plan[1].id
    /\ steps[current_step_id].retry_count = 1
    /\ is_stage_completed(steps, current_step_id, "validation")
    /\ steps[current_step_id].validation_result = "valid"
    /\ FetchCalls(current_step_id) = 2

\* C32: a one-step run whose first fetch result is judged invalid and whose
\* second is judged valid ends, with retry_count = 1, the step completed
\* and exactly two fetch executions recorded for the step.
C32_RetryThenSuccessEnds ==
    RetriedAndValid
       ~> (/\ node = "END"
           /\ Len(plan) = 1
           /\ steps[plan[1].id].completed
           /\ steps[plan[1].id].retry_count = 1
           /\ FetchCalls(plan[1].id) = 2)

\* C33: when the reasoner node records a first decision that selects no
\* hypothesis (selected_hypothesis = -1), no tool call is left to dispatch
\* for the step and the step is completed at once with a null output.
C33_NoViableHypothesisCompletesStep ==
    [][(/\ node = "reasoner"
        /\ current_step_id # NULL
        /\ ~steps[current_step_id].decision.present
        /\ steps'[current_step_id].decision.present
        /\ steps'[current_step_id].decision.selected_hypothesis = -1)
          => /\ get_current_tool_call(steps', current_step_id) = NULL
             /\ steps'[current_step_id].raw_output = NULL
             /\ steps'[current_step_id].completed]_vars

\* C34: record_reasoner_decision stores the decision and sets the expected
\* stages of the step: data_fetch iff a hypothesis is selected, processing
\* iff postprocessing.needed, validation iff validation.needed.
C34_ExpectedStagesFromDecision ==
    [][LET id  == call_args'[1]
           out == call_args'[2]
       IN  /\ steps'[id].decision.present
           /\ steps'[id].expected_stages["data_fetch"]
                 = (out.selected_hypothesis # -1)
           /\ steps'[id].expected_stages["processing"]
                 = out.postprocessing.needed
           /\ steps'[id].expected_stages["validation"]
                 = out.validation.needed]_vars

\* the first stage, in the order data_fetch, processing, validation, that
\* is expected and not completed for the step; "completed" when none is
FirstPendingStage(st, id) ==
    LET pending(s) == st[id].expected_stages[s] /\ ~st[id].completed_stages[s]
    IN  IF pending("data_fetch") THEN "data_fetch"
        ELSE IF pending("processing") THEN "processing"
        ELSE IF pending("validation") THEN "validation"
        ELSE "completed"

C36_ToolCallOfCurrentStage ==
    \A id \in StepIds :
        LET stage  == get_current_stage(steps, id)
            call   == get_current_tool_call(steps, id)
            params == get_current_tool_call_params(steps, id)
        IN  steps[id].exists =>
              /\ stage = "completed" => call = NULL
              /\ (stage = "data_fetch" /\ steps[id].hypothesis # NULL)
                    => /\ call = "ToolAgent"
                       /\ params["hypothesis_params"] = steps[id].hypothesis
              /\ stage = "processing"
                    => /\ call = "DataAnalysisAgent"
                       /\ DOMAIN params = {"subquestion_text", "raw_output"}
                       /\ params["raw_output"] = steps[id].raw_output
              /\ stage = "validation"
                    => /\ call = "ResultValidatorAgent"
                       /\ DOMAIN params = {"subquestion_text", "raw_output",
                                           "agent_calls", "step_state"}
                       /\ params["raw_output"] = steps[id].raw_output

\* the executor node runs the tool call of the current step and the call
\* succeeds (a success is what adds an entry to the step's agent_calls)
ExecutorSucceeds ==
    /\ node = "executor"
    /\ current_step_id # NULL
    /\ steps[current_step_id].exists
    /\ get_tool_call_for_executor(steps, current_step_id) # NULL
    /\ Len(steps'[current_step_id].agent_calls)
          = Len(steps[current_step_id].agent_calls) + 1

C38_RoutingAfterReasoner ==
    [][/\ node = "reasoner"
          => /\ node' \in {"executor", "next_subquestion"}
             /\ node' = "executor"
                   <=> /\ current_step_id # NULL
                       /\ get_current_tool_call(steps', current_step_id) # NULL
                       /\ ~is_step_completed(steps', current_step_id)
       /\ node = "executor" => node' = "next_subquestion"]_vars

\* the reasoner node, entered for step id, gets as far as calling the
\* reasoner agent: no retry or forced completion, the step not fully
\* completed, no usable decision stored
ReasonerAgentCalled(st, id) ==
    /\ ~(is_stage_completed(st, id, "validation")
           /\ st[id].validation_result # "valid")
    /\ ~is_step_fully_completed(st, id)
    /\ ~(st[id].exists /\ st[id].decision.present /\ st[id].error = NULL)

\* C39: when the reasoner agent returns an error result (a decision that
\* fails structural validation included), the reasoner node records the
\* step as failed and hands control back without a decision to execute.
C39_DecisionFailureFailsStep ==
    [][(/\ node = "reasoner"
        /\ current_step_id # NULL
        /\ ReasonerAgentCalled(steps, current_step_id)
        /\ steps' = reasoner_step(steps, current_step_id, "error", NoDecision))
          => /\ step_failed(steps', current_step_id)
             /\ node' = "next_subquestion"]_vars

====
